---- MODULE Spec2Model ----
(***************************************************************************)
(* Deadlock detection by global snapshot.                                  *)
(*                                                                         *)
(* The repository holds two programs that share one design:                *)
(*   - new_implementation.py (refactored into src/db_resources.py and      *)
(*     src/deadlock_detector.py): User threads with mailboxes, markers     *)
(*     and a DeadlockDetector thread that initiates numbered snapshots;    *)
(*   - main.py (src/db_system.py, src/snapshot.py): ClientConnection       *)
(*     threads, a LockManager, a Snapshotter thread and a shutdown event.  *)
(* The variable entry says which of the two entry points was started.      *)
(*                                                                         *)
(* Ids: the code numbers users and tables from 0 (range(n)) and names      *)
(* clients "Client-1".. and tables "tbl_01"..; here every id is a number   *)
(* from 1, so that None can be the number 0.                               *)
(***************************************************************************)
EXTENDS Integers, Sequences, FiniteSets, TLC

\* ---- bounds of the model
NumUsers == 2
NumTables == 2
MaxSnapshots == 2
NumClients == 2
GraphProcs == 4
GraphTables == 4
SharedProcs == 3
SharedTables == 2

None == 0

Users == 1..NumUsers
Tables == 1..NumTables
Clients == 1..NumClients
\* the processes and tables of the global states the analysis is run on
GProcs == 1..GraphProcs
GTables == 1..GraphTables

VARIABLES
    entry,               \* "new_implementation" or "main"
    \* ---- new_implementation.py / db_resources.py / deadlock_detector.py
    lock,                \* Table.lock: TRUE when the threading.Lock is taken
    locked_by,           \* Table.locked_by
    held_locks,          \* User.held_locks (a list)
    waiting_for,         \* User.waiting_for (a table or None)
    running,             \* User.running
    in_channel,          \* User.in_channel (a FIFO of marker messages)
    local_state,         \* User.local_state: snapshot id -> recorded state
    received_marker,     \* User.received_marker: the ids whose flag is True
    snapshot_lock,       \* User.snapshot_lock: "free", "user" or "detector"
    upc,                 \* where each User thread is in run()
    fwd,                 \* receive_marker / initiate_snapshot: the marker loop
    dpc,                 \* where the DeadlockDetector thread is
    det_running,         \* DeadlockDetector.running
    snapshot_id_counter, \* DeadlockDetector.snapshot_id_counter
    global_state,        \* run_snapshot_and_detection: global_state
    wait_for_graph,      \* run_snapshot_and_detection: wait_for_graph
    deadlock,            \* run_snapshot_and_detection: what detect_cycle returned
    dk,                  \* the detector's loop variable over self.users
    rec_held,            \* record_local_state run by the detector: the list read
    \* ---- main.py / db_system.py / snapshot.py
    shutdown_event,      \* the threading.Event shared by every thread
    write_lock,          \* table.write_lock: TRUE when the lock is taken
    lock_owner,          \* table.lock_owner
    locked_tables,       \* ClientConnection.locked_tables (a set)
    waiting_for_table,   \* ClientConnection.waiting_for_table
    cpc,                 \* where each ClientConnection thread is
    tables_to_lock,      \* __perform_write_transaction: tables_to_lock
    tx_i,                \* __perform_write_transaction: the loop's position
    acquired_locks,      \* __perform_write_transaction: acquired_locks
    spc,                 \* where the Snapshotter thread is
    snapshot_data,       \* take_snapshot: snapshot_data
    sk,                  \* take_snapshot: the loop over self.connections
    cycle,               \* analyze: what __find_cycle returned (<<>> for None)
    \* ---- observation
    probe                \* the last release_lock call made outside a transaction

uvars == <<lock, locked_by, held_locks, waiting_for, running, in_channel,
           local_state, received_marker, snapshot_lock, upc, fwd>>
dvars == <<dpc, det_running, snapshot_id_counter, global_state,
           wait_for_graph, deadlock, dk, rec_held>>
cvars == <<write_lock, lock_owner, locked_tables, waiting_for_table, cpc,
           tables_to_lock, tx_i, acquired_locks>>
svars == <<spc, snapshot_data, sk, cycle>>
mvars == <<shutdown_event, cvars, svars>>
vars == <<entry, uvars, dvars, mvars, probe>>

\* ---- helpers
Range(s) == {s[i] : i \in 1..Len(s)}

RECURSIVE SortedSeq(_)
SortedSeq(S) ==
    IF S = {} THEN <<>>
    ELSE LET m == CHOOSE x \in S : \A y \in S : x <= y
         IN <<m>> \o SortedSeq(S \ {m})

\* the users a marker from u goes to, in the order of all_users
Others(u) == SortedSeq(Users \ {u})

Marker(from, sid) == [type |-> "MARKER", from_user |-> from, snapshot_id |-> sid]

\* record_local_state: the state a user records
LocalState(held, waiting) == [held_locks |-> held, waiting_for |-> waiting]

NoGraph == [u \in {} |-> <<>>]

InitUsers ==
    /\ lock = [t \in Tables |-> FALSE]
    /\ locked_by = [t \in Tables |-> None]
    /\ held_locks = [u \in Users |-> <<>>]
    /\ waiting_for = [u \in Users |-> None]
    /\ running = [u \in Users |-> TRUE]
    /\ in_channel = [u \in Users |-> <<>>]
    /\ local_state = [u \in Users |-> NoGraph]
    /\ received_marker = [u \in Users |-> {}]
    /\ snapshot_lock = [u \in Users |-> "free"]
    /\ upc = [u \in Users |-> "loop"]
    /\ fwd = [u \in Users |-> <<>>]

InitDetector ==
    /\ dpc = "sleep"
    /\ det_running = TRUE
    /\ snapshot_id_counter = 0
    /\ global_state = NoGraph
    /\ wait_for_graph = NoGraph
    /\ deadlock = FALSE
    /\ dk = 0
    /\ rec_held = <<>>

InitMain ==
    /\ shutdown_event = FALSE
    /\ write_lock = [t \in Tables |-> FALSE]
    /\ lock_owner = [t \in Tables |-> None]
    /\ locked_tables = [c \in Clients |-> {}]
    /\ waiting_for_table = [c \in Clients |-> None]
    /\ cpc = [c \in Clients |-> "run"]
    /\ tables_to_lock = [c \in Clients |-> <<>>]
    /\ tx_i = [c \in Clients |-> 0]
    /\ acquired_locks = [c \in Clients |-> <<>>]
    /\ spc = "sleep"
    /\ snapshot_data = NoGraph
    /\ sk = 0
    /\ cycle = <<>>

NoProbe == [conn |-> None, table |-> None, owner |-> FALSE, n |-> 0]

Init ==
    /\ entry \in {"new_implementation", "main"}
    /\ probe = NoProbe
    /\ InitUsers
    /\ InitDetector
    /\ InitMain

\* ======================================================================
\* User (db_resources.py)
\* ======================================================================

\* run: while self.running
UserLoop(u) ==
    /\ entry = "new_implementation"
    /\ upc[u] = "loop"
    /\ upc' = [upc EXCEPT ![u] = IF running[u] THEN "msgs" ELSE "done"]
    /\ UNCHANGED <<entry, probe, mvars, lock, locked_by, held_locks, waiting_for, running,
                   in_channel, local_state, received_marker, snapshot_lock,
                   fwd, dvars>>

\* a receive_marker that starts forwarding without having recorded
ForwardWithoutRecord(u) ==
    /\ entry = "new_implementation"
    /\ upc[u] = "msgs"
    /\ in_channel[u] # <<>>
    /\ snapshot_lock[u] = "free"
    /\ LET m == Head(in_channel[u])
           sid == m.snapshot_id
       IN /\ in_channel' = [in_channel EXCEPT ![u] = Tail(@)]
          /\ IF sid \notin received_marker[u] /\ fwd[u] = <<>>
             THEN /\ snapshot_lock' = [snapshot_lock EXCEPT ![u] = "user"]
                  /\ fwd' = [fwd EXCEPT ![u] = <<sid, 1, m.from_user>>]
                  /\ upc' = [upc EXCEPT ![u] = "fwd"]
                  /\ UNCHANGED <<local_state, received_marker>>
             ELSE UNCHANGED <<local_state, received_marker, snapshot_lock, fwd, upc>>
    /\ UNCHANGED <<entry, probe, mvars, lock, locked_by, held_locks, waiting_for,
                   running, dvars>>

\* a receive_marker that does not test the received_marker flag
RecordEveryMarker(u) ==
    /\ entry = "new_implementation"
    /\ upc[u] = "msgs"
    /\ in_channel[u] # <<>>
    /\ snapshot_lock[u] = "free"
    /\ LET m == Head(in_channel[u])
           sid == m.snapshot_id
       IN /\ in_channel' = [in_channel EXCEPT ![u] = Tail(@)]
          /\ local_state' = [local_state EXCEPT ![u] =
                (sid :> LocalState(held_locks[u], waiting_for[u])) @@ @]
          /\ received_marker' = [received_marker EXCEPT ![u] = @ \cup {sid}]
          /\ snapshot_lock' = [snapshot_lock EXCEPT ![u] = "user"]
          /\ fwd' = [fwd EXCEPT ![u] = <<sid, 1, m.from_user>>]
          /\ upc' = [upc EXCEPT ![u] = "fwd"]
    /\ UNCHANGED <<entry, probe, mvars, lock, locked_by, held_locks, waiting_for,
                   running, dvars>>

\* process_messages takes a marker; receive_marker, under snapshot_lock:
\* the first marker of an id records the local state and sets the flag,
\* and the forwarding loop follows; a later one only logs
receive_marker(u) ==
    /\ entry = "new_implementation"
    /\ upc[u] = "msgs"
    /\ in_channel[u] # <<>>
    /\ snapshot_lock[u] = "free"
    /\ LET m == Head(in_channel[u])
           sid == m.snapshot_id
       IN /\ in_channel' = [in_channel EXCEPT ![u] = Tail(@)]
          /\ IF sid \notin received_marker[u]
             THEN /\ local_state' = [local_state EXCEPT ![u] =
                        (sid :> LocalState(held_locks[u], waiting_for[u])) @@ @]
                  /\ received_marker' = [received_marker EXCEPT ![u] = @ \cup {sid}]
                  /\ snapshot_lock' = [snapshot_lock EXCEPT ![u] = "user"]
                  /\ fwd' = [fwd EXCEPT ![u] = <<sid, 1, m.from_user>>]
                  /\ upc' = [upc EXCEPT ![u] = "fwd"]
             ELSE UNCHANGED <<local_state, received_marker, snapshot_lock, fwd, upc>>
    /\ UNCHANGED <<entry, probe, mvars, lock, locked_by, held_locks, waiting_for, running, dvars>>

\* receive_marker: for user in self.all_users: if user.id != self.id: put
UserForward(u) ==
    /\ entry = "new_implementation"
    /\ upc[u] = "fwd"
    /\ LET sid == fwd[u][1]
           i == fwd[u][2]
           to == Others(u)
       IN IF i <= Len(to)
          THEN /\ in_channel' = [in_channel EXCEPT ![to[i]] = Append(@, Marker(u, sid))]
               /\ fwd' = [fwd EXCEPT ![u] = <<sid, i + 1, fwd[u][3]>>]
               /\ UNCHANGED <<snapshot_lock, upc>>
          ELSE /\ snapshot_lock' = [snapshot_lock EXCEPT ![u] = "free"]
               /\ fwd' = [fwd EXCEPT ![u] = <<>>]
               /\ upc' = [upc EXCEPT ![u] = "msgs"]
               /\ UNCHANGED in_channel
    /\ UNCHANGED <<entry, probe, mvars, lock, locked_by, held_locks, waiting_for, running,
                   local_state, received_marker, dvars>>

\* process_messages finds the channel empty;
\* perform_action: if not self.running: return
UserStopped(u) ==
    /\ entry = "new_implementation"
    /\ upc[u] = "msgs"
    /\ in_channel[u] = <<>>
    /\ ~running[u]
    /\ upc' = [upc EXCEPT ![u] = "loop"]
    /\ UNCHANGED <<entry, probe, mvars, lock, locked_by, held_locks, waiting_for, running,
                   in_channel, local_state, received_marker, snapshot_lock,
                   fwd, dvars>>

\* a turn that switches to another table while a goal is outstanding
RetrySwitchesGoal(u) ==
    /\ entry = "new_implementation"
    /\ upc[u] = "msgs"
    /\ in_channel[u] = <<>>
    /\ running[u]
    /\ waiting_for[u] # None
    /\ \E t \in Tables \ {waiting_for[u]} :
          waiting_for' = [waiting_for EXCEPT ![u] = t]
    /\ upc' = [upc EXCEPT ![u] = "try"]
    /\ UNCHANGED <<entry, probe, mvars, lock, locked_by, held_locks, running,
                   in_channel, local_state, received_marker, snapshot_lock,
                   fwd, dvars>>

\* process_messages finds the channel empty;
\* perform_action: if self.waiting_for: self.try_acquire_lock(self.waiting_for)
UserRetry(u) ==
    /\ entry = "new_implementation"
    /\ upc[u] = "msgs"
    /\ in_channel[u] = <<>>
    /\ running[u]
    /\ waiting_for[u] # None
    /\ upc' = [upc EXCEPT ![u] = "try"]
    /\ UNCHANGED <<entry, probe, mvars, lock, locked_by, held_locks, waiting_for, running,
                   in_channel, local_state, received_marker, snapshot_lock,
                   fwd, dvars>>

\* process_messages finds the channel empty;
\* perform_action: action == "read"; read(table) changes nothing
read(u) ==
    /\ entry = "new_implementation"
    /\ upc[u] = "msgs"
    /\ in_channel[u] = <<>>
    /\ running[u]
    /\ waiting_for[u] = None
    /\ upc' = [upc EXCEPT ![u] = "loop"]
    /\ UNCHANGED <<entry, probe, mvars, lock, locked_by, held_locks, waiting_for, running,
                   in_channel, local_state, received_marker, snapshot_lock,
                   fwd, dvars>>

\* process_messages finds the channel empty;
\* perform_action: action == "write": self.waiting_for = table
UserWrite(u, t) ==
    /\ entry = "new_implementation"
    /\ upc[u] = "msgs"
    /\ in_channel[u] = <<>>
    /\ running[u]
    /\ waiting_for[u] = None
    /\ waiting_for' = [waiting_for EXCEPT ![u] = t]
    /\ upc' = [upc EXCEPT ![u] = "try"]
    /\ UNCHANGED <<entry, probe, mvars, lock, locked_by, held_locks, running,
                   in_channel, local_state, received_marker, snapshot_lock,
                   fwd, dvars>>

\* try_acquire_lock: if table in self.held_locks: goal achieved
UserAlreadyHolds(u) ==
    /\ entry = "new_implementation"
    /\ upc[u] = "try"
    /\ waiting_for[u] \in Range(held_locks[u])
    /\ waiting_for' = [waiting_for EXCEPT ![u] = None]
    /\ upc' = [upc EXCEPT ![u] = "loop"]
    /\ UNCHANGED <<entry, probe, mvars, lock, locked_by, held_locks, running,
                   in_channel, local_state, received_marker, snapshot_lock,
                   fwd, dvars>>

\* an acquire that is granted although another user holds the lock
GrantHeldLock(u) ==
    /\ entry = "new_implementation"
    /\ upc[u] = "try"
    /\ waiting_for[u] \notin Range(held_locks[u])
    /\ lock' = [lock EXCEPT ![waiting_for[u]] = TRUE]
    /\ upc' = [upc EXCEPT ![u] = "granted"]
    /\ UNCHANGED <<entry, probe, mvars, locked_by, held_locks, waiting_for, running,
                   in_channel, local_state, received_marker, snapshot_lock,
                   fwd, dvars>>

\* try_acquire_lock: table.lock.acquire(blocking=True, timeout=1) succeeds
UserLockGranted(u) ==
    /\ entry = "new_implementation"
    /\ upc[u] = "try"
    /\ waiting_for[u] \notin Range(held_locks[u])
    /\ ~lock[waiting_for[u]]
    /\ lock' = [lock EXCEPT ![waiting_for[u]] = TRUE]
    /\ upc' = [upc EXCEPT ![u] = "granted"]
    /\ UNCHANGED <<entry, probe, mvars, locked_by, held_locks, waiting_for, running,
                   in_channel, local_state, received_marker, snapshot_lock,
                   fwd, dvars>>

\* a timeout that gives the goal up
TimeoutDropsGoal(u) ==
    /\ entry = "new_implementation"
    /\ upc[u] = "try"
    /\ waiting_for[u] \notin Range(held_locks[u])
    /\ lock[waiting_for[u]]
    /\ waiting_for' = [waiting_for EXCEPT ![u] = None]
    /\ upc' = [upc EXCEPT ![u] = "loop"]
    /\ UNCHANGED <<entry, probe, mvars, lock, locked_by, held_locks, running,
                   in_channel, local_state, received_marker, snapshot_lock,
                   fwd, dvars>>

\* try_acquire_lock: the acquire times out; "will keep trying"
UserLockTimeout(u) ==
    /\ entry = "new_implementation"
    /\ upc[u] = "try"
    /\ waiting_for[u] \notin Range(held_locks[u])
    /\ lock[waiting_for[u]]
    /\ upc' = [upc EXCEPT ![u] = "loop"]
    /\ UNCHANGED <<entry, probe, mvars, lock, locked_by, held_locks, waiting_for, running,
                   in_channel, local_state, received_marker, snapshot_lock,
                   fwd, dvars>>

\* a try_acquire_lock that keeps the granted lock without looking at the
\* running flag
KeepWithoutRecheck(u) ==
    /\ entry = "new_implementation"
    /\ upc[u] = "granted"
    /\ held_locks' = [held_locks EXCEPT ![u] = Append(@, waiting_for[u])]
    /\ upc' = [upc EXCEPT ![u] = "append"]
    /\ UNCHANGED <<lock, waiting_for>>
    /\ UNCHANGED <<entry, probe, mvars, locked_by, running, in_channel, local_state,
                   received_marker, snapshot_lock, fwd, dvars>>

\* try_acquire_lock, lock_acquired: if not self.running the lock is
\* released and the goal dropped; else self.held_locks.append(table)
UserAfterGrant(u) ==
    /\ entry = "new_implementation"
    /\ upc[u] = "granted"
    /\ IF ~running[u]
       THEN /\ lock' = [lock EXCEPT ![waiting_for[u]] = FALSE]
            /\ waiting_for' = [waiting_for EXCEPT ![u] = None]
            /\ upc' = [upc EXCEPT ![u] = "loop"]
            /\ UNCHANGED held_locks
       ELSE /\ held_locks' = [held_locks EXCEPT ![u] = Append(@, waiting_for[u])]
            /\ upc' = [upc EXCEPT ![u] = "append"]
            /\ UNCHANGED <<lock, waiting_for>>
    /\ UNCHANGED <<entry, probe, mvars, locked_by, running, in_channel, local_state,
                   received_marker, snapshot_lock, fwd, dvars>>

\* try_acquire_lock: table.locked_by = self; self.waiting_for = None
UserOwns(u) ==
    /\ entry = "new_implementation"
    /\ upc[u] = "append"
    /\ locked_by' = [locked_by EXCEPT ![waiting_for[u]] = u]
    /\ waiting_for' = [waiting_for EXCEPT ![u] = None]
    /\ upc' = [upc EXCEPT ![u] = "loop"]
    /\ UNCHANGED <<entry, probe, mvars, lock, held_locks, running, in_channel, local_state,
                   received_marker, snapshot_lock, fwd, dvars>>

\* the steps of the thread of user u
UserThread(u) ==
    \/ UserLoop(u)
    \/ receive_marker(u)
    \/ UserForward(u)
    \/ UserStopped(u)
    \/ UserRetry(u)
    \/ read(u)
    \/ \E t \in Tables : UserWrite(u, t)
    \/ UserAlreadyHolds(u)
    \/ UserLockGranted(u)
    \/ UserLockTimeout(u)
    \/ UserAfterGrant(u)
    \/ UserOwns(u)

UserNext == \E u \in Users : UserThread(u)

\* ======================================================================
\* DeadlockDetector (deadlock_detector.py): the analysis
\* ======================================================================

\* a dict's keys in insertion order: global_state is filled in the order
\* of self.users, the graph in the order of global_state
Keys(d) == SortedSeq(DOMAIN d)

\* build_wait_for_graph, first loop: table_holders[table_id] = user_id,
\* a later user overwriting an earlier one
RECURSIVE HoldersOfList(_, _, _, _)
HoldersOfList(holders, user_id, held, i) ==
    IF i > Len(held) THEN holders
    ELSE HoldersOfList((held[i] :> user_id) @@ holders, user_id, held, i + 1)

RECURSIVE table_holders(_, _, _)
table_holders(gs, keys, holders) ==
    IF keys = <<>> THEN holders
    ELSE table_holders(gs, Tail(keys),
             HoldersOfList(holders, Head(keys), gs[Head(keys)].held_locks, 1))

\* build_wait_for_graph, second loop: graph[user_id].append(holder_user_id)
RECURSIVE GraphEdges(_, _, _, _)
GraphEdges(gs, keys, holders, graph) ==
    IF keys = <<>> THEN graph
    ELSE LET user_id == Head(keys)
             table_id == gs[user_id].waiting_for
             more == IF /\ table_id # None
                        /\ table_id \in DOMAIN holders
                        /\ user_id # holders[table_id]
                     THEN (user_id :> <<holders[table_id]>>) @@ graph
                     ELSE graph
         IN GraphEdges(gs, Tail(keys), holders, more)

build_wait_for_graph(gs) ==
    GraphEdges(gs, Keys(gs), table_holders(gs, Keys(gs), NoGraph), NoGraph)

\* graph.get(node, [])
Neighbors(graph, node) == IF node \in DOMAIN graph THEN graph[node] ELSE <<>>

\* _is_cyclic_util: the result, and the visiting and visited sets it leaves
RECURSIVE is_cyclic_util(_, _, _, _)
RECURSIVE CyclicFrom(_, _, _, _, _)
\* a search that takes a fully processed neighbour for one on the path
CyclicFromVisited(node, graph, i, visiting, visited) ==
    LET nbrs == Neighbors(graph, node)
    IN IF i > Len(nbrs)
       THEN [found |-> FALSE, visiting |-> visiting \ {node},
             visited |-> visited \cup {node}]
       ELSE IF nbrs[i] \in visiting \cup visited
       THEN [found |-> TRUE, visiting |-> visiting, visited |-> visited]
       ELSE LET r == is_cyclic_util(nbrs[i], graph, visiting, visited)
            IN IF r.found THEN r
               ELSE CyclicFrom(node, graph, i + 1, r.visiting, r.visited)

CyclicFrom(node, graph, i, visiting, visited) ==
    LET nbrs == Neighbors(graph, node)
    IN IF i > Len(nbrs)
       THEN [found |-> FALSE, visiting |-> visiting \ {node},
             visited |-> visited \cup {node}]
       ELSE IF nbrs[i] \in visiting
       THEN [found |-> TRUE, visiting |-> visiting, visited |-> visited]
       ELSE IF nbrs[i] \notin visited
       THEN LET r == is_cyclic_util(nbrs[i], graph, visiting, visited)
            IN IF r.found THEN r
               ELSE CyclicFrom(node, graph, i + 1, r.visiting, r.visited)
       ELSE CyclicFrom(node, graph, i + 1, visiting, visited)

is_cyclic_util(node, graph, visiting, visited) ==
    CyclicFrom(node, graph, 1, visiting \cup {node}, visited)

\* detect_cycle: for node in list(graph.keys())
RECURSIVE DetectFrom(_, _, _, _)
DetectFrom(graph, keys, visiting, visited) ==
    IF keys = <<>> THEN FALSE
    ELSE IF Head(keys) \in visited
    THEN DetectFrom(graph, Tail(keys), visiting, visited)
    ELSE LET r == is_cyclic_util(Head(keys), graph, visiting, visited)
         IN IF r.found THEN TRUE
            ELSE DetectFrom(graph, Tail(keys), r.visiting, r.visited)

\* a detect_cycle whose visited set outlives the call: from the second
\* round on every node counts as processed already
DetectWithOldVisited(graph) ==
    DetectFrom(graph, Keys(graph), {},
               IF snapshot_id_counter > 1 THEN DOMAIN graph ELSE {})

detect_cycle(graph) == DetectFrom(graph, Keys(graph), {}, {})

\* ======================================================================
\* DeadlockDetector (deadlock_detector.py): the thread
\* ======================================================================

\* users[0]
Initiator == 1

\* a round that starts without advancing the counter and so uses the
\* previous round's id again
InitiateReusesId ==
    /\ entry = "new_implementation"
    /\ dpc = "sleep"
    /\ det_running
    /\ snapshot_id_counter < MaxSnapshots
    /\ snapshot_lock[Initiator] = "free"
    /\ snapshot_id_counter' = snapshot_id_counter
    /\ IF snapshot_id_counter \notin received_marker[Initiator]
       THEN /\ snapshot_lock' = [snapshot_lock EXCEPT ![Initiator] = "detector"]
            /\ rec_held' = held_locks[Initiator]
            /\ dpc' = "record"
            /\ UNCHANGED <<dk, global_state>>
       ELSE /\ dpc' = "collect"
            /\ dk' = 1
            /\ global_state' = NoGraph
            /\ UNCHANGED <<snapshot_lock, rec_held>>
    /\ UNCHANGED <<entry, probe, mvars, lock, locked_by, held_locks, waiting_for, running,
                   in_channel, local_state, received_marker, upc, fwd,
                   det_running, wait_for_graph, deadlock>>

\* run: time.sleep(10) is over and self.running holds;
\* run_snapshot_and_detection: self.snapshot_id_counter += 1, then
\* initiate_snapshot on users[0], run by the detector thread: it takes the
\* user's snapshot_lock and tests the flag; record_local_state then reads
\* self.held_locks
initiate_snapshot ==
    /\ entry = "new_implementation"
    /\ dpc = "sleep"
    /\ det_running
    /\ snapshot_id_counter < MaxSnapshots
    /\ snapshot_lock[Initiator] = "free"
    /\ snapshot_id_counter' = snapshot_id_counter + 1
    /\ IF snapshot_id_counter + 1 \notin received_marker[Initiator]
       THEN /\ snapshot_lock' = [snapshot_lock EXCEPT ![Initiator] = "detector"]
            /\ rec_held' = held_locks[Initiator]
            /\ dpc' = "record"
            /\ UNCHANGED <<dk, global_state>>
       ELSE /\ dpc' = "collect"
            /\ dk' = 1
            /\ global_state' = NoGraph
            /\ UNCHANGED <<snapshot_lock, rec_held>>
    /\ UNCHANGED <<entry, probe, mvars, lock, locked_by, held_locks, waiting_for, running,
                   in_channel, local_state, received_marker, upc, fwd,
                   det_running, wait_for_graph, deadlock>>

\* record_local_state in the detector thread:
\* self.waiting_for.id if self.waiting_for is not None else None.
\* The test reads self.waiting_for; when it is None the state is stored
\* and the flag set, else .id reads it a second time
DetectorRecordTest ==
    /\ entry = "new_implementation"
    /\ dpc = "record"
    /\ IF waiting_for[Initiator] = None
       THEN /\ local_state' = [local_state EXCEPT ![Initiator] =
                  (snapshot_id_counter :> LocalState(rec_held, None)) @@ @]
            /\ received_marker' = [received_marker EXCEPT ![Initiator] =
                  @ \cup {snapshot_id_counter}]
            /\ dpc' = "send"
            /\ dk' = 1
            /\ rec_held' = <<>>
       ELSE /\ dpc' = "record_id"
            /\ UNCHANGED <<local_state, received_marker, dk, rec_held>>
    /\ UNCHANGED <<entry, probe, mvars, lock, locked_by, held_locks, waiting_for, running,
                   in_channel, snapshot_lock, upc, fwd, det_running,
                   snapshot_id_counter, global_state, wait_for_graph, deadlock>>

\* the second read, self.waiting_for.id: the user's own thread may have
\* set waiting_for to None since the test, and None has no attribute id:
\* the exception leaves the with block (the lock is released) and ends
\* the detector thread
DetectorRecordId ==
    /\ entry = "new_implementation"
    /\ dpc = "record_id"
    /\ IF waiting_for[Initiator] # None
       THEN /\ local_state' = [local_state EXCEPT ![Initiator] =
                  (snapshot_id_counter :>
                       LocalState(rec_held, waiting_for[Initiator])) @@ @]
            /\ received_marker' = [received_marker EXCEPT ![Initiator] =
                  @ \cup {snapshot_id_counter}]
            /\ dpc' = "send"
            /\ dk' = 1
            /\ UNCHANGED snapshot_lock
       ELSE /\ snapshot_lock' = [snapshot_lock EXCEPT ![Initiator] = "free"]
            /\ dpc' = "crashed"
            /\ UNCHANGED <<local_state, received_marker, dk>>
    /\ rec_held' = <<>>
    /\ UNCHANGED <<entry, probe, mvars, lock, locked_by, held_locks, waiting_for, running,
                   in_channel, upc, fwd, det_running,
                   snapshot_id_counter, global_state, wait_for_graph, deadlock>>

\* initiate_snapshot: for user in self.all_users: if user.id != self.id: put;
\* then the lock is released and time.sleep(3) begins
DetectorSend ==
    /\ entry = "new_implementation"
    /\ dpc = "send"
    /\ LET to == Others(Initiator)
       IN IF dk <= Len(to)
          THEN /\ in_channel' = [in_channel EXCEPT ![to[dk]] =
                     Append(@, Marker(Initiator, snapshot_id_counter))]
               /\ dk' = dk + 1
               /\ UNCHANGED <<snapshot_lock, dpc, global_state>>
          ELSE /\ snapshot_lock' = [snapshot_lock EXCEPT ![Initiator] = "free"]
               /\ dpc' = "collect"
               /\ dk' = 1
               /\ global_state' = NoGraph
               /\ UNCHANGED in_channel
    /\ UNCHANGED <<entry, probe, mvars, lock, locked_by, held_locks, waiting_for, running,
                   local_state, received_marker, upc, fwd, det_running,
                   snapshot_id_counter, wait_for_graph, deadlock, rec_held>>

\* a collection that puts a straggler's live state into the map
CollectLiveState ==
    /\ entry = "new_implementation"
    /\ dpc = "collect"
    /\ snapshot_lock[dk] = "free"
    /\ global_state' =
          IF snapshot_id_counter \in DOMAIN local_state[dk]
          THEN (dk :> local_state[dk][snapshot_id_counter]) @@ global_state
          ELSE (dk :> LocalState(held_locks[dk], waiting_for[dk])) @@ global_state
    /\ IF dk < NumUsers
       THEN dk' = dk + 1 /\ UNCHANGED dpc
       ELSE dk' = 0 /\ dpc' = "analyze"
    /\ UNCHANGED <<entry, probe, mvars, uvars, det_running, snapshot_id_counter,
                   wait_for_graph, deadlock, rec_held>>

\* collect_global_state: for user in self.users: with user.snapshot_lock:
\* if snapshot_id in user.local_state: global_state[user.id] = ...
collect_global_state ==
    /\ entry = "new_implementation"
    /\ dpc = "collect"
    /\ snapshot_lock[dk] = "free"
    /\ global_state' =
          IF snapshot_id_counter \in DOMAIN local_state[dk]
          THEN (dk :> local_state[dk][snapshot_id_counter]) @@ global_state
          ELSE global_state
    /\ IF dk < NumUsers
       THEN dk' = dk + 1 /\ UNCHANGED dpc
       ELSE dk' = 0 /\ dpc' = "analyze"
    /\ UNCHANGED <<entry, probe, mvars, uvars, det_running, snapshot_id_counter,
                   wait_for_graph, deadlock, rec_held>>

\* a round that reports the deadlock and stops the users but leaves the
\* detector's own flag set
DetectKeepsRunning ==
    /\ entry = "new_implementation"
    /\ dpc = "analyze"
    /\ LET graph == build_wait_for_graph(global_state)
           found == detect_cycle(graph)
       IN /\ wait_for_graph' = graph
          /\ deadlock' = found
          /\ IF found
             THEN /\ dpc' = "stop"
                  /\ dk' = 1
             ELSE /\ dpc' = "clear"
                  /\ UNCHANGED dk
    /\ UNCHANGED <<entry, probe, mvars, uvars, det_running, snapshot_id_counter,
                   global_state, rec_held>>

\* run_snapshot_and_detection: build_wait_for_graph, detect_cycle;
\* on a cycle stop_simulation begins with self.running = False
DetectorAnalyze ==
    /\ entry = "new_implementation"
    /\ dpc = "analyze"
    /\ LET graph == build_wait_for_graph(global_state)
           found == detect_cycle(graph)
       IN /\ wait_for_graph' = graph
          /\ deadlock' = found
          /\ IF found
             THEN /\ det_running' = FALSE
                  /\ dpc' = "stop"
                  /\ dk' = 1
             ELSE /\ dpc' = "clear"
                  /\ UNCHANGED <<det_running, dk>>
    /\ UNCHANGED <<entry, probe, mvars, uvars, snapshot_id_counter, global_state, rec_held>>

\* run_snapshot_and_detection: "No deadlock detected"; the round returns
\* (its local variables are gone) and run sleeps again
DetectorClear ==
    /\ entry = "new_implementation"
    /\ dpc = "clear"
    /\ dpc' = "sleep"
    /\ global_state' = NoGraph
    /\ wait_for_graph' = NoGraph
    /\ deadlock' = FALSE
    /\ UNCHANGED <<entry, probe, mvars, uvars, det_running, snapshot_id_counter, dk, rec_held>>

\* User.stop: self.running = False
stop(u) == running' = [running EXCEPT ![u] = FALSE]

\* stop_simulation: for user in self.users: user.stop(); the round then
\* returns to run, whose while self.running ends the thread
stop_simulation ==
    /\ entry = "new_implementation"
    /\ dpc = "stop"
    /\ IF dk <= NumUsers
       THEN /\ stop(dk)
            /\ dk' = dk + 1
            /\ UNCHANGED dpc
       ELSE /\ dpc' = IF det_running THEN "sleep" ELSE "done"
            /\ dk' = 0
            /\ UNCHANGED running
    /\ UNCHANGED <<entry, probe, mvars, lock, locked_by, held_locks, waiting_for,
                   in_channel, local_state, received_marker, snapshot_lock,
                   upc, fwd, det_running, snapshot_id_counter, global_state,
                   wait_for_graph, deadlock, rec_held>>

DetectorNext ==
    \/ initiate_snapshot
    \/ DetectorRecordTest
    \/ DetectorRecordId
    \/ DetectorSend
    \/ collect_global_state
    \/ DetectorAnalyze
    \/ DetectorClear
    \/ stop_simulation

\* ======================================================================
\* DeadlockDetector (snapshot.py): the analysis
\* ======================================================================

\* a client's entry in snapshot_data
ConnState(locked, waiting) == [locked_tables |-> locked, waiting_for_table |-> waiting]

\* __build_wait_for_graph: the first thread of the snapshot, in its order,
\* whose locked_tables hold the table (None when there is none)
RECURSIVE owner_found(_, _, _)
owner_found(snapshot, keys, name) ==
    IF keys = <<>> THEN None
    ELSE IF name \in snapshot[Head(keys)].locked_tables THEN Head(keys)
    ELSE owner_found(snapshot, Tail(keys), name)

\* an edge for a thread that waits for a table of its own as well
WaitEdgesToSelf(snapshot, thread_id) ==
    LET name == snapshot[thread_id].waiting_for_table
        owner == owner_found(snapshot, Keys(snapshot), name)
    IN IF name # None /\ owner # None
       THEN <<owner>> ELSE <<>>

\* __build_wait_for_graph: graph = {thread_id: [] for thread_id in snapshot}
\* and one edge for a thread that waits for a table another thread holds
WaitEdges(snapshot, thread_id) ==
    LET name == snapshot[thread_id].waiting_for_table
        owner == owner_found(snapshot, Keys(snapshot), name)
    IN IF name # None /\ owner # None /\ owner # thread_id
       THEN <<owner>> ELSE <<>>

find_wait_for_graph(snapshot) ==
    [thread_id \in DOMAIN snapshot |-> WaitEdges(snapshot, thread_id)]

Front(s) == SubSeq(s, 1, Len(s) - 1)

\* __dfs_cycle_util: the path it returns (<<>> for None) and the visited
\* set, recursion stack and path list it leaves
RECURSIVE dfs_cycle_util(_, _, _, _, _)
RECURSIVE DfsFrom(_, _, _, _, _, _)
\* a search that reports the path without the node the back edge leads to
DfsFromOpenPath(node, graph, i, visited, recursion_stack, path) ==
    LET nbrs == Neighbors(graph, node)
    IN IF i > Len(nbrs)
       THEN [result |-> <<>>, visited |-> visited,
             recursion_stack |-> recursion_stack \ {node}, path |-> Front(path)]
       ELSE IF nbrs[i] \notin visited
       THEN LET r == dfs_cycle_util(nbrs[i], graph, visited, recursion_stack, path)
            IN IF r.result # <<>> THEN r
               ELSE DfsFrom(node, graph, i + 1, r.visited, r.recursion_stack, r.path)
       ELSE IF nbrs[i] \in recursion_stack
       THEN [result |-> path, visited |-> visited,
             recursion_stack |-> recursion_stack, path |-> path]
       ELSE DfsFrom(node, graph, i + 1, visited, recursion_stack, path)

DfsFrom(node, graph, i, visited, recursion_stack, path) ==
    LET nbrs == Neighbors(graph, node)
    IN IF i > Len(nbrs)
       THEN [result |-> <<>>, visited |-> visited,
             recursion_stack |-> recursion_stack \ {node}, path |-> Front(path)]
       ELSE IF nbrs[i] \notin visited
       THEN LET r == dfs_cycle_util(nbrs[i], graph, visited, recursion_stack, path)
            IN IF r.result # <<>> THEN r
               ELSE DfsFrom(node, graph, i + 1, r.visited, r.recursion_stack, r.path)
       ELSE IF nbrs[i] \in recursion_stack
       THEN [result |-> Append(path, nbrs[i]), visited |-> visited,
             recursion_stack |-> recursion_stack, path |-> Append(path, nbrs[i])]
       ELSE DfsFrom(node, graph, i + 1, visited, recursion_stack, path)

dfs_cycle_util(node, graph, visited, recursion_stack, path) ==
    DfsFrom(node, graph, 1, visited \cup {node}, recursion_stack \cup {node},
            Append(path, node))

\* path.index(start_node)
Index(path, x) == CHOOSE i \in 1..Len(path) :
                      path[i] = x /\ \A j \in 1..(i - 1) : path[j] # x

\* a report of the whole search path instead of its closed part
WholePath(path) == path

\* __find_cycle: path[path.index(path[-1]):] of the first path found
CyclePart(path) == SubSeq(path, Index(path, path[Len(path)]), Len(path))

RECURSIVE FindFrom(_, _, _, _)
FindFrom(graph, keys, visited, recursion_stack) ==
    IF keys = <<>> THEN <<>>
    ELSE IF Head(keys) \in visited
    THEN FindFrom(graph, Tail(keys), visited, recursion_stack)
    ELSE LET r == dfs_cycle_util(Head(keys), graph, visited, recursion_stack, <<>>)
         IN IF r.result # <<>> THEN CyclePart(r.result)
            ELSE FindFrom(graph, Tail(keys), r.visited, r.recursion_stack)

find_cycle(graph) == FindFrom(graph, Keys(graph), {}, {})

\* ======================================================================
\* LockManager and ClientConnection (db_system.py)
\* ======================================================================

\* main.py started the threads. (main itself only polls the event and
\* calls sys.exit(0) once it is set, which ends the daemon threads
\* wherever they are: a behaviour in which they take no further step.)
Alive == entry = "main"

\* a release_lock that frees a known table whoever holds it
ReleaseUnchecked(c, table_name) ==
    IF table_name \notin Tables
    THEN UNCHANGED <<locked_tables, lock_owner, write_lock>>
    ELSE /\ locked_tables' = [locked_tables EXCEPT ![c] = @ \ {table_name}]
         /\ lock_owner' = [lock_owner EXCEPT ![table_name] = None]
         /\ write_lock' = [write_lock EXCEPT ![table_name] = FALSE]

\* LockManager.release_lock(connection, table_name)
release_lock(c, table_name) ==
    IF table_name \notin Tables \/ table_name \notin locked_tables[c]
    THEN UNCHANGED <<locked_tables, lock_owner, write_lock>>
    ELSE IF lock_owner[table_name] = c
    THEN /\ locked_tables' = [locked_tables EXCEPT ![c] = @ \ {table_name}]
         /\ lock_owner' = [lock_owner EXCEPT ![table_name] = None]
         /\ write_lock' = [write_lock EXCEPT ![table_name] = FALSE]
    ELSE UNCHANGED <<locked_tables, lock_owner, write_lock>>

\* run: while not self.shutdown_event.is_set() ends the thread
ClientExit(c) ==
    /\ Alive
    /\ cpc[c] = "run"
    /\ shutdown_event
    /\ cpc' = [cpc EXCEPT ![c] = "done"]
    /\ UNCHANGED <<entry, probe, uvars, dvars, shutdown_event, write_lock, lock_owner,
                   locked_tables, waiting_for_table, tables_to_lock, tx_i,
                   acquired_locks, svars>>

\* __perform_operation chooses __perform_read: time.sleep(read_duration)
perform_read(c) ==
    /\ Alive
    /\ cpc[c] = "run"
    /\ ~shutdown_event
    /\ cpc' = [cpc EXCEPT ![c] = "reading"]
    /\ UNCHANGED <<entry, probe, uvars, dvars, shutdown_event, write_lock, lock_owner,
                   locked_tables, waiting_for_table, tables_to_lock, tx_i,
                   acquired_locks, svars>>

\* the read is over; the cooldown, and run's loop again
ClientCooldown(c) ==
    /\ Alive
    /\ cpc[c] = "reading"
    /\ cpc' = [cpc EXCEPT ![c] = "run"]
    /\ UNCHANGED <<entry, probe, uvars, dvars, shutdown_event, write_lock, lock_owner,
                   locked_tables, waiting_for_table, tables_to_lock, tx_i,
                   acquired_locks, svars>>

\* random.sample(self.all_tables, num_tables), num_tables 1 or 2
Samples == {<<t>> : t \in Tables} \cup
           {<<t1, t2>> : <<t1, t2>> \in {p \in Tables \X Tables : p[1] # p[2]}}

\* __perform_operation chooses __perform_write_transaction: tables_to_lock
\* is sampled and acquired_locks = []
perform_write_transaction(c, sample) ==
    /\ Alive
    /\ cpc[c] = "run"
    /\ ~shutdown_event
    /\ tables_to_lock' = [tables_to_lock EXCEPT ![c] = sample]
    /\ acquired_locks' = [acquired_locks EXCEPT ![c] = <<>>]
    /\ tx_i' = [tx_i EXCEPT ![c] = 1]
    /\ cpc' = [cpc EXCEPT ![c] = "tx_loop"]
    /\ UNCHANGED <<entry, probe, uvars, dvars, shutdown_event, write_lock, lock_owner,
                   locked_tables, waiting_for_table, svars>>

\* the for loop of __perform_write_transaction: after the last table, or
\* with the shutdown event set, on to the finally block; else
\* acquire_lock begins: connection.waiting_for_table = table
TxLoop(c) ==
    /\ Alive
    /\ cpc[c] = "tx_loop"
    /\ IF tx_i[c] > Len(tables_to_lock[c]) \/ shutdown_event
       THEN /\ cpc' = [cpc EXCEPT ![c] = "tx_finally"]
            /\ UNCHANGED waiting_for_table
       ELSE /\ waiting_for_table' =
                  [waiting_for_table EXCEPT ![c] = tables_to_lock[c][tx_i[c]]]
            /\ cpc' = [cpc EXCEPT ![c] = "acquire"]
    /\ UNCHANGED <<entry, probe, uvars, dvars, shutdown_event, write_lock, lock_owner,
                   locked_tables, tables_to_lock, tx_i, acquired_locks, svars>>

\* an acquire that does not wait for the lock to be free
AcquireWithoutWaiting(c) ==
    /\ Alive
    /\ cpc[c] = "acquire"
    /\ write_lock' = [write_lock EXCEPT ![tables_to_lock[c][tx_i[c]]] = TRUE]
    /\ cpc' = [cpc EXCEPT ![c] = "acquired"]
    /\ UNCHANGED <<entry, probe, uvars, dvars, shutdown_event, lock_owner,
                   locked_tables, waiting_for_table, tables_to_lock, tx_i,
                   acquired_locks, svars>>

\* acquire_lock: table.write_lock.acquire() returns (it has no timeout)
AcquireGranted(c) ==
    /\ Alive
    /\ cpc[c] = "acquire"
    /\ ~write_lock[tables_to_lock[c][tx_i[c]]]
    /\ write_lock' = [write_lock EXCEPT ![tables_to_lock[c][tx_i[c]]] = TRUE]
    /\ cpc' = [cpc EXCEPT ![c] = "acquired"]
    /\ UNCHANGED <<entry, probe, uvars, dvars, shutdown_event, lock_owner,
                   locked_tables, waiting_for_table, tables_to_lock, tx_i,
                   acquired_locks, svars>>

\* an acquire_lock that writes the owner before it looks at the event
AcquireOwnsFirst(c) ==
    /\ Alive
    /\ cpc[c] = "acquired"
    /\ LET table == tables_to_lock[c][tx_i[c]]
       IN /\ lock_owner' = [lock_owner EXCEPT ![table] = c]
          /\ IF shutdown_event
             THEN /\ write_lock' = [write_lock EXCEPT ![table] = FALSE]
                  /\ UNCHANGED <<locked_tables, waiting_for_table>>
             ELSE /\ locked_tables' = [locked_tables EXCEPT ![c] = @ \cup {table}]
                  /\ waiting_for_table' = [waiting_for_table EXCEPT ![c] = None]
                  /\ UNCHANGED write_lock
    /\ cpc' = [cpc EXCEPT ![c] = "tx_check"]
    /\ UNCHANGED <<entry, probe, uvars, dvars, shutdown_event, tables_to_lock, tx_i,
                   acquired_locks, svars>>

\* acquire_lock after the grant: with the shutdown event set the lock is
\* released and the call returns; else locked_tables.add(table),
\* table.lock_owner = connection, connection.waiting_for_table = None
acquire_lock(c) ==
    /\ Alive
    /\ cpc[c] = "acquired"
    /\ LET table == tables_to_lock[c][tx_i[c]]
       IN IF shutdown_event
          THEN /\ write_lock' = [write_lock EXCEPT ![table] = FALSE]
               /\ UNCHANGED <<locked_tables, lock_owner, waiting_for_table>>
          ELSE /\ locked_tables' = [locked_tables EXCEPT ![c] = @ \cup {table}]
               /\ lock_owner' = [lock_owner EXCEPT ![table] = c]
               /\ waiting_for_table' = [waiting_for_table EXCEPT ![c] = None]
               /\ UNCHANGED write_lock
    /\ cpc' = [cpc EXCEPT ![c] = "tx_check"]
    /\ UNCHANGED <<entry, probe, uvars, dvars, shutdown_event, tables_to_lock, tx_i,
                   acquired_locks, svars>>

\* __perform_write_transaction after acquire_lock returned:
\* if self.shutdown_event.is_set(): break; acquired_locks.append(table)
TxCheck(c) ==
    /\ Alive
    /\ cpc[c] = "tx_check"
    /\ IF shutdown_event
       THEN /\ cpc' = [cpc EXCEPT ![c] = "tx_finally"]
            /\ UNCHANGED <<acquired_locks, tx_i>>
       ELSE /\ acquired_locks' = [acquired_locks EXCEPT ![c] =
                  Append(@, tables_to_lock[c][tx_i[c]])]
            /\ tx_i' = [tx_i EXCEPT ![c] = @ + 1]
            /\ cpc' = [cpc EXCEPT ![c] = "tx_loop"]
    /\ UNCHANGED <<entry, probe, uvars, dvars, shutdown_event, write_lock, lock_owner,
                   locked_tables, waiting_for_table, tables_to_lock, svars>>

\* finally: for table in reversed(acquired_locks): release_lock(self, name).
\* acquired_locks keeps the part of the list still to be released; after
\* the last one the transaction returns
TxFinally(c) ==
    /\ Alive
    /\ cpc[c] = "tx_finally"
    /\ IF acquired_locks[c] # <<>>
       THEN /\ release_lock(c, acquired_locks[c][Len(acquired_locks[c])])
            /\ acquired_locks' = [acquired_locks EXCEPT ![c] = Front(@)]
            /\ UNCHANGED <<cpc, tables_to_lock, tx_i>>
       ELSE /\ cpc' = [cpc EXCEPT ![c] = "run"]
            /\ tables_to_lock' = [tables_to_lock EXCEPT ![c] = <<>>]
            /\ tx_i' = [tx_i EXCEPT ![c] = 0]
            /\ UNCHANGED <<locked_tables, lock_owner, write_lock, acquired_locks>>
    /\ UNCHANGED <<entry, probe, uvars, dvars, shutdown_event, waiting_for_table,
                   svars>>

\* the steps of the thread of connection c
ClientThread(c) ==
    \/ ClientExit(c)
    \/ perform_read(c)
    \/ ClientCooldown(c)
    \/ \E sample \in Samples : perform_write_transaction(c, sample)
    \/ TxLoop(c)
    \/ AcquireGranted(c)
    \/ acquire_lock(c)
    \/ TxCheck(c)
    \/ TxFinally(c)

ClientNext == \E c \in Clients : ClientThread(c)

\* ======================================================================
\* Snapshotter (snapshot.py), LockManager.take_snapshot and main (main.py)
\* ======================================================================

\* Snapshotter.run: time.sleep(self.interval) is over; with the event set
\* the thread ends, else take_snapshot begins with snapshot_data = {}
SnapshotterWake ==
    /\ Alive
    /\ spc = "sleep"
    /\ IF shutdown_event
       THEN /\ spc' = "done"
            /\ UNCHANGED <<snapshot_data, sk, cycle>>
       ELSE /\ spc' = "snapshot"
            /\ snapshot_data' = NoGraph
            /\ sk' = 1
            /\ UNCHANGED cycle
    /\ UNCHANGED <<entry, probe, uvars, dvars, shutdown_event, cvars>>

\* take_snapshot: for thread_id, conn_obj in self.connections.items():
\* the entry of one connection
take_snapshot ==
    /\ Alive
    /\ spc = "snapshot"
    /\ snapshot_data' =
          (sk :> ConnState(locked_tables[sk], waiting_for_table[sk])) @@ snapshot_data
    /\ IF sk < NumClients
       THEN sk' = sk + 1 /\ UNCHANGED spc
       ELSE sk' = 0 /\ spc' = "analyze"
    /\ UNCHANGED <<entry, probe, uvars, dvars, shutdown_event, cvars, cycle>>

\* DeadlockDetector.analyze: it returns at once with the event set; else
\* it builds the graph and runs __find_cycle
analyze ==
    /\ Alive
    /\ spc = "analyze"
    /\ IF shutdown_event
       THEN /\ spc' = "sleep"
            /\ snapshot_data' = NoGraph
            /\ UNCHANGED cycle
       ELSE /\ spc' = "verdict"
            /\ cycle' = find_cycle(find_wait_for_graph(snapshot_data))
            /\ UNCHANGED snapshot_data
    /\ UNCHANGED <<entry, probe, uvars, dvars, shutdown_event, cvars, sk>>

\* DeadlockDetector.analyze: if cycle: self.shutdown_event.set(); analyze
\* and take_snapshot return and Snapshotter.run sleeps again
AnalyzeVerdict ==
    /\ Alive
    /\ spc = "verdict"
    /\ spc' = "sleep"
    /\ shutdown_event' = IF cycle # <<>> THEN TRUE ELSE shutdown_event
    /\ snapshot_data' = NoGraph
    /\ cycle' = <<>>
    /\ UNCHANGED <<entry, probe, uvars, dvars, cvars, sk>>

\* main: except KeyboardInterrupt: shutdown_event.set()
KeyboardInterrupt ==
    /\ Alive
    /\ ~shutdown_event
    /\ shutdown_event' = TRUE
    /\ UNCHANGED <<entry, probe, uvars, dvars, cvars, svars>>

MainNext ==
    \/ ClientNext
    \/ SnapshotterWake
    \/ take_snapshot
    \/ analyze
    \/ AnalyzeVerdict
    \/ KeyboardInterrupt

Next == UserNext \/ DetectorNext \/ MainNext

\* both programs: Init chooses the entry point
Spec == Init /\ [][Next]_vars

\* new_implementation.py alone
InitUsersProgram == Init /\ entry = "new_implementation"
NextUsers == UserNext \/ DetectorNext
SpecUsers == InitUsersProgram /\ [][NextUsers]_vars

\* new_implementation.py, every started thread being scheduled again and
\* again
SpecUsersFair ==
    /\ SpecUsers
    /\ \A u \in Users : WF_vars(UserThread(u))
    /\ WF_vars(DetectorNext)

\* main.py alone
InitMainProgram == Init /\ entry = "main"
SpecMain == InitMainProgram /\ [][MainNext]_vars

\* the steps of the DBA-Monitor thread
SnapshotterThread == SnapshotterWake \/ take_snapshot \/ analyze \/ AnalyzeVerdict

\* main.py, every started thread being scheduled again and again
SpecMainFair ==
    /\ SpecMain
    /\ \A c \in Clients : WF_vars(ClientThread(c))
    /\ WF_vars(SnapshotterThread)

\* ======================================================================
\* The LockManager's release interface called with any arguments
\* ======================================================================

\* a table name that is not a key of LockManager.tables
UnknownTable == NumTables + 1
TableNames == Tables \cup {UnknownTable}

\* whether release_lock(c, table_name) is a release by the owner
IsOwner(c, table_name) ==
    /\ table_name \in Tables
    /\ table_name \in locked_tables[c]
    /\ lock_owner[table_name] = c

\* a connection thread that is between two operations calls
\* lock_manager.release_lock(self, table_name) with any table name
StrayRelease(c, table_name) ==
    /\ Alive
    /\ cpc[c] = "run"
    /\ release_lock(c, table_name)
    /\ probe' = [conn |-> c, table |-> table_name,
                 owner |-> IsOwner(c, table_name), n |-> 1 - probe.n]
    /\ UNCHANGED <<entry, uvars, dvars, shutdown_event, waiting_for_table, cpc,
                   tables_to_lock, tx_i, acquired_locks, svars>>

NextLockManager ==
    \/ ClientNext
    \/ KeyboardInterrupt
    \/ \E c \in Clients, table_name \in TableNames : StrayRelease(c, table_name)

\* the clients and the LockManager, the event set at any moment
SpecLockManager == InitMainProgram /\ [][NextLockManager]_vars

\* ======================================================================
\* The analysis on every global state within the bounds: a detector that
\* has just collected global_state (run_snapshot_and_detection) or
\* snapshot_data (take_snapshot). Each table has at most one holder.
\* ======================================================================

\* run_snapshot_and_detection: if self.detect_cycle(wait_for_graph):
\* self.running = False; self.stop_simulation(), the outcome of the round
\* left open. With NumUsers users a ring takes every user, so no acquire
\* of the model is in flight when the flags fall; among the program's four
\* users one can be.
DeadlockFound ==
    /\ entry = "new_implementation"
    /\ dpc = "sleep"
    /\ det_running
    /\ deadlock' = TRUE
    /\ det_running' = FALSE
    /\ dpc' = "stop"
    /\ dk' = 1
    /\ UNCHANGED <<entry, probe, mvars, uvars, snapshot_id_counter, global_state,
                   wait_for_graph, rec_held>>

\* the users' loop without the marker traffic
UserAcquireNext ==
    \E u \in Users :
        \/ UserLoop(u)
        \/ UserStopped(u)
        \/ UserRetry(u)
        \/ read(u)
        \/ \E t \in Tables : UserWrite(u, t)
        \/ UserAlreadyHolds(u)
        \/ UserLockGranted(u)
        \/ UserLockTimeout(u)
        \/ UserAfterGrant(u)
        \/ UserOwns(u)

NextShutdown ==
    \/ UserAcquireNext
    \/ DeadlockFound
    \/ stop_simulation
    \/ MainNext

\* lock acquisition of both programs while the shutdown signal may come at
\* any moment
SpecShutdown == Init /\ [][NextShutdown]_vars

HeldBy(holder, p) == {t \in GTables : holder[t] = p}

InitGraph ==
    /\ entry \in {"new_implementation", "main"}
    /\ probe = NoProbe
    /\ InitUsers
    /\ det_running = TRUE
    /\ snapshot_id_counter = 1
    /\ wait_for_graph = NoGraph
    /\ deadlock = FALSE
    /\ dk = 0
    /\ rec_held = <<>>
    /\ shutdown_event = FALSE
    /\ write_lock = [t \in Tables |-> FALSE]
    /\ lock_owner = [t \in Tables |-> None]
    /\ locked_tables = [c \in Clients |-> {}]
    /\ waiting_for_table = [c \in Clients |-> None]
    /\ cpc = [c \in Clients |-> "run"]
    /\ tables_to_lock = [c \in Clients |-> <<>>]
    /\ tx_i = [c \in Clients |-> 0]
    /\ acquired_locks = [c \in Clients |-> <<>>]
    /\ sk = 0
    /\ cycle = <<>>
    /\ \/ /\ entry = "new_implementation"
          /\ dpc = "analyze"
          /\ spc = "sleep"
          /\ snapshot_data = NoGraph
          /\ \E present \in SUBSET GProcs :
               \E holder \in [GTables -> present \cup {None}],
                  waiting \in [present -> GTables \cup {None}] :
                   global_state = [p \in present |->
                       LocalState(SortedSeq(HeldBy(holder, p)), waiting[p])]
       \/ /\ entry = "main"
          /\ dpc = "sleep"
          /\ spc = "analyze"
          /\ global_state = NoGraph
          /\ \E n \in 0..GraphProcs :
               \E holder \in [GTables -> (1..n) \cup {None}],
                  waiting \in [1..n -> GTables \cup {None}] :
                   snapshot_data = [c \in 1..n |->
                       ConnState(HeldBy(holder, c), waiting[c])]

NextGraph ==
    \/ DetectorAnalyze
    \/ DetectorClear
    \/ stop_simulation
    \/ analyze
    \/ AnalyzeVerdict

SpecGraph == InitGraph /\ [][NextGraph]_vars

\* the parts of a state in which only the analysis of a collected global
\* state is about to run
InitIdle ==
    /\ probe = NoProbe
    /\ InitUsers
    /\ det_running = TRUE
    /\ snapshot_id_counter = 1
    /\ wait_for_graph = NoGraph
    /\ deadlock = FALSE
    /\ dk = 0
    /\ rec_held = <<>>
    /\ shutdown_event = FALSE
    /\ write_lock = [t \in Tables |-> FALSE]
    /\ lock_owner = [t \in Tables |-> None]
    /\ locked_tables = [c \in Clients |-> {}]
    /\ waiting_for_table = [c \in Clients |-> None]
    /\ cpc = [c \in Clients |-> "run"]
    /\ tables_to_lock = [c \in Clients |-> <<>>]
    /\ tx_i = [c \in Clients |-> 0]
    /\ acquired_locks = [c \in Clients |-> <<>>]
    /\ sk = 0
    /\ cycle = <<>>

\* the analysis applied to every global state over SharedProcs processes
\* and SharedTables tables, a table being in any number of held sets
InitShared ==
    /\ entry \in {"new_implementation", "main"}
    /\ InitIdle
    /\ \/ /\ entry = "new_implementation"
          /\ dpc = "analyze"
          /\ spc = "sleep"
          /\ snapshot_data = NoGraph
          /\ \E present \in SUBSET (1..SharedProcs) :
               \E holders \in [1..SharedTables -> SUBSET present],
                  waiting \in [present -> (1..SharedTables) \cup {None}] :
                   global_state = [p \in present |->
                       LocalState(SortedSeq({t \in 1..SharedTables : p \in holders[t]}),
                                  waiting[p])]
       \/ /\ entry = "main"
          /\ dpc = "sleep"
          /\ spc = "analyze"
          /\ global_state = NoGraph
          /\ \E n \in 0..SharedProcs :
               \E holders \in [1..SharedTables -> SUBSET (1..n)],
                  waiting \in [1..n -> (1..SharedTables) \cup {None}] :
                   snapshot_data = [c \in 1..n |->
                       ConnState({t \in 1..SharedTables : c \in holders[t]}, waiting[c])]

SpecShared == InitShared /\ [][NextGraph]_vars
\* ======================================================================
\* Properties
\* ======================================================================

\* C1: mutual exclusion: in every reachable state no table is in the held
\* set (held_locks / locked_tables) of two different processes
C1_MutualExclusion ==
    /\ \A u1, u2 \in Users :
         u1 # u2 => Range(held_locks[u1]) \cap Range(held_locks[u2]) = {}
    /\ \A c1, c2 \in Clients :
         c1 # c2 => locked_tables[c1] \cap locked_tables[c2] = {}

\* a client holds a table while another client is blocked in its acquire
C1_Witness ==
    \E c1, c2 \in Clients :
        /\ c1 # c2
        /\ cpc[c2] = "acquire"
        /\ waiting_for_table[c2] \in locked_tables[c1]

\* C2: release discipline: once __perform_write_transaction has returned,
\* the client holds none of the transaction's tables. A client takes locks
\* in a transaction only, so between two operations it holds no table at
\* all and owns none.
C2_ReleasedAfterTransaction ==
    \A c \in Clients :
        cpc[c] \in {"run", "reading", "done"} =>
            /\ locked_tables[c] = {}
            /\ \A t \in Tables : lock_owner[t] # c

\* C3: record before forward: a marker for snapshot id s whose from_user
\* is p lies in a mailbox only when p has a local-state record for s
C3_RecordBeforeForward ==
    \A u \in Users : \A i \in 1..Len(in_channel[u]) :
        in_channel[u][i].snapshot_id \in DOMAIN local_state[in_channel[u][i].from_user]

\* a forwarded marker (not the initiator's) lies in a mailbox
C3_Witness ==
    \E u \in Users : \E i \in 1..Len(in_channel[u]) :
        in_channel[u][i].from_user # Initiator

\* the step is user u taking a marker for an id it has already recorded
TakesDuplicate(u) ==
    /\ upc[u] = "msgs"
    /\ in_channel[u] # <<>>
    /\ Head(in_channel[u]).snapshot_id \in DOMAIN local_state[u]
    /\ in_channel'[u] = Tail(in_channel[u])

\* C4: idempotent capture: a record local_state[s], once made, is never
\* changed by any later step, and a process that takes a marker for an id
\* it has already recorded sends no marker
C4_IdempotentCapture ==
    [][\A u \in Users :
         /\ \A sid \in DOMAIN local_state[u] :
               /\ sid \in DOMAIN local_state'[u]
               /\ local_state'[u][sid] = local_state[u][sid]
         /\ TakesDuplicate(u) =>
               /\ upc'[u] = "msgs"
               /\ fwd' = fwd
               /\ \A v \in Users \ {u} : in_channel'[v] = in_channel[v]]_vars

\* user 2 has recorded snapshot 1 and finished forwarding, so the initiator
\* was sent a second marker for it, and has taken it (its mailbox is
\* empty), with held/waiting fields that differ from its record
C4_Witness ==
    /\ 1 \in DOMAIN local_state[2]
    /\ upc[2] # "fwd"
    /\ in_channel[Initiator] = <<>>
    /\ 1 \in DOMAIN local_state[Initiator]
    /\ local_state[Initiator][1] #
           LocalState(held_locks[Initiator], waiting_for[Initiator])

\* ----------------------------------------------------------------------
\* The wait-for relation of the global state under analysis, read off the
\* state itself: p waits for q when q is another process that holds the
\* table p is waiting for
GsProcs == IF entry = "main" THEN DOMAIN snapshot_data ELSE DOMAIN global_state

GsWaiting(p) ==
    IF entry = "main" THEN snapshot_data[p].waiting_for_table
    ELSE global_state[p].waiting_for

GsHolds(p, t) ==
    IF entry = "main" THEN t \in snapshot_data[p].locked_tables
    ELSE t \in Range(global_state[p].held_locks)

SingleHolder ==
    \A p, q \in GsProcs : \A t \in GTables :
        GsHolds(p, t) /\ GsHolds(q, t) => p = q

WaitsFor(p, q) == p # q /\ GsWaiting(p) # None /\ GsHolds(q, GsWaiting(p))

Successors(S) == {q \in GsProcs : \E p \in S : WaitsFor(p, q)}

RECURSIVE ReachIn(_, _)
ReachIn(S, n) ==
    IF n = 0 THEN {} ELSE Successors(S) \cup ReachIn(Successors(S), n - 1)

Reach(p) == ReachIn({p}, Cardinality(GsProcs))

OnCycle(p) == p \in Reach(p)

CycleOf(p) == {q \in Reach(p) : p \in Reach(q)}

Acyclic == \A p \in GsProcs : ~OnCycle(p)

\* the detector of deadlock_detector.py has the result of detect_cycle
DetectorVerdict == entry = "new_implementation" /\ dpc \in {"clear", "stop"}

\* analyze of snapshot.py has the result of __find_cycle
SnapshotVerdict == entry = "main" /\ spc = "verdict"

C6_NoFalsePositive ==
    [][/\ (entry = "new_implementation" /\ dpc = "analyze" /\ Acyclic) =>
             /\ deadlock' = FALSE
             /\ dpc' = "clear"
             /\ running' = running
             /\ det_running' = det_running
             /\ shutdown_event' = shutdown_event
       /\ (entry = "new_implementation" /\ dpc = "clear") =>
             /\ dpc' = "sleep"
             /\ running' = running
             /\ det_running' = det_running
             /\ det_running
             /\ shutdown_event' = shutdown_event
       /\ (entry = "main" /\ spc = "analyze" /\ ~shutdown_event /\ Acyclic) =>
             /\ cycle' = <<>>
             /\ spc' = "verdict"
             /\ running' = running
             /\ shutdown_event' = shutdown_event
       /\ (entry = "main" /\ spc = "verdict" /\ cycle = <<>>) =>
             /\ spc' = "sleep"
             /\ running' = running
             /\ shutdown_event' = shutdown_event]_vars

\* the detector has found no deadlock in a state where two processes wait
\* for tables of the same third process
C6_Witness ==
    /\ DetectorVerdict
    /\ dpc = "clear"
    /\ deadlock = FALSE
    /\ Acyclic
    /\ \E p, q, r \in GsProcs :
          p # q /\ WaitsFor(p, r) /\ WaitsFor(q, r)

\* C7: shutdown re-check after grant: the step a requester takes after its
\* acquire was granted, the shutdown signal (the user's running flag false,
\* the shutdown event set) being set, releases the lock again and abandons
\* the request: no table's owner and no held set changes
C7_RecheckAfterGrant ==
    [][/\ \A u \in Users :
             (upc[u] = "granted" /\ ~running[u] /\ upc'[u] # "granted") =>
                 /\ ~lock'[waiting_for[u]]
                 /\ locked_by' = locked_by
                 /\ held_locks' = held_locks
                 /\ upc'[u] = "loop"
       /\ \A c \in Clients :
             (cpc[c] = "acquired" /\ shutdown_event /\ cpc'[c] # "acquired") =>
                 /\ ~write_lock'[tables_to_lock[c][tx_i[c]]]
                 /\ lock_owner' = lock_owner
                 /\ locked_tables' = locked_tables
                 /\ cpc'[c] = "tx_check"]_vars

\* acquire_lock has returned to a client with the event set and the
\* requested table free again and not in its held set
C7_Witness ==
    \E c \in Clients :
        /\ cpc[c] = "tx_check"
        /\ shutdown_event
        /\ tables_to_lock[c][tx_i[c]] \notin locked_tables[c]
        /\ ~write_lock[tables_to_lock[c][tx_i[c]]]

\* C8: release by a non-owner or of an unknown table is a no-op: a call
\* release_lock(c, t) where t is unknown, or not in c's held set, or owned
\* by another connection leaves every table's write_lock and lock_owner
\* and every connection's held set unchanged
C8_ReleaseNoOp ==
    [][(probe' # probe /\ ~probe'.owner) =>
           /\ write_lock' = write_lock
           /\ lock_owner' = lock_owner
           /\ locked_tables' = locked_tables]_vars

\* the last release_lock call named a table that another connection owns,
\* and the table is still locked and owned by it
C8_Witness ==
    /\ probe.conn # None
    /\ ~probe.owner
    /\ probe.table \in Tables
    /\ lock_owner[probe.table] \notin {None, probe.conn}
    /\ probe.table \in locked_tables[lock_owner[probe.table]]
    /\ write_lock[probe.table]

\* the step is user u leaving try_acquire_lock by a timeout: the table it
\* asked for is not its own and is locked
TimesOut(u) ==
    /\ upc[u] = "try"
    /\ waiting_for[u] \notin Range(held_locks[u])
    /\ lock[waiting_for[u]]
    /\ upc'[u] # "try"

\* C9: acquire timeout has no side effects: a try_acquire_lock that times
\* out leaves every table's lock and locked_by, every held list, every
\* waiting_for and every other user's state unchanged; the goal is given
\* up by no step but a finished try_acquire_lock, and with the goal set the
\* user's next perform_action tries the same table again
C9_TimeoutNoSideEffects ==
    [][\A u \in Users :
         /\ TimesOut(u) =>
               /\ upc'[u] = "loop"
               /\ lock' = lock
               /\ locked_by' = locked_by
               /\ held_locks' = held_locks
               /\ waiting_for' = waiting_for
               /\ running' = running
               /\ in_channel' = in_channel
               /\ local_state' = local_state
               /\ received_marker' = received_marker
               /\ \A v \in Users \ {u} : upc'[v] = upc[v]
         /\ (waiting_for[u] # None /\ waiting_for'[u] # waiting_for[u]) =>
               /\ upc[u] \in {"try", "granted", "append"}
               /\ upc[u] = "try" => waiting_for[u] \in Range(held_locks[u])
         /\ (upc[u] = "msgs" /\ in_channel[u] = <<>> /\ running[u]
               /\ waiting_for[u] # None /\ upc'[u] # "msgs") =>
               /\ upc'[u] = "try"
               /\ waiting_for'[u] = waiting_for[u]]_vars

\* a running user is back in its loop after a timeout: its goal is a table
\* that another user owns
C9_Witness ==
    \E u \in Users :
        /\ upc[u] = "loop"
        /\ running[u]
        /\ waiting_for[u] # None
        /\ waiting_for[u] \notin Range(held_locks[u])
        /\ locked_by[waiting_for[u]] \notin {None, u}

\* C10: a detected cycle is terminal: a positive detect_cycle clears the
\* detector's running flag and its stop_simulation every user's, a cycle
\* from __find_cycle sets the shutdown event; from then on the detector
\* never leaves its stop, the snapshot counter stays, the Snapshotter
\* starts no snapshot, and no flag is ever set back; the stopping steps
\* change no held set, no owner and no lock
C10_DetectedCycleTerminal ==
    [][/\ \A u \in Users : ~running[u] => ~running'[u]
       /\ ~det_running => ~det_running'
       /\ shutdown_event => shutdown_event'
       /\ (dpc = "analyze" /\ deadlock') => (dpc' = "stop" /\ ~det_running')
       /\ dpc \in {"stop", "done"} =>
             /\ deadlock /\ ~det_running
             /\ dpc' \in {"stop", "done"}
             /\ snapshot_id_counter' = snapshot_id_counter
       /\ dpc' = "done" => \A u \in Users : ~running'[u]
       /\ ((dpc = "analyze" /\ dpc' = "stop") \/ (dpc = "stop" /\ dvars' # dvars)) =>
             /\ held_locks' = held_locks
             /\ locked_by' = locked_by
             /\ lock' = lock
       /\ (spc = "verdict" /\ cycle # <<>> /\ spc' # spc) =>
             /\ shutdown_event'
             /\ spc' = "sleep"
             /\ locked_tables' = locked_tables
             /\ lock_owner' = lock_owner
             /\ write_lock' = write_lock
       /\ (shutdown_event /\ spc \in {"sleep", "done"}) =>
             spc' \in {"sleep", "done"}]_vars

\* the detector has ended after a detection: every user is stopped and
\* still has the tables of the ring in its held list
C10_Witness ==
    /\ dpc = "done"
    /\ deadlock
    /\ \A u \in Users : ~running[u] /\ held_locks[u] # <<>>

\* the number of markers of user p for snapshot sid in a channel
MarkersIn(ch, p, sid) == Cardinality({i \in 1..Len(ch) : ch[i] = Marker(p, sid)})

\* the step ends the recording part of initiate_snapshot
InitiateRecorded == dpc \in {"record", "record_id"} /\ dpc' \notin {"record", "record_id"}

\* C11: initiate: initiate_snapshot(s) on a process that has not recorded
\* s records its current {held, waiting}, marks s received and puts exactly
\* one marker for s, from itself, into every other mailbox and none into
\* its own; on a process that has recorded s it changes and sends nothing
C11_Initiate ==
    [][/\ InitiateRecorded =>
             /\ dpc' = "send"
             /\ snapshot_id_counter \in DOMAIN local_state'[Initiator]
             /\ local_state'[Initiator][snapshot_id_counter] =
                    LocalState(held_locks[Initiator], waiting_for[Initiator])
             /\ snapshot_id_counter \in received_marker'[Initiator]
       /\ \A i \in 1..Len(in_channel'[Initiator]) :
             in_channel'[Initiator][i].from_user # Initiator
       /\ \A v \in Users \ {Initiator} : \A sid \in 1..MaxSnapshots :
             MarkersIn(in_channel'[v], Initiator, sid) <= 1
       /\ (dpc = "send" /\ dpc' = "collect") =>
             \A v \in Users \ {Initiator} :
                 \/ MarkersIn(in_channel'[v], Initiator, snapshot_id_counter) = 1
                 \/ snapshot_id_counter \in received_marker'[v]
       /\ (dpc = "sleep" /\ dpc' # "sleep"
             /\ snapshot_id_counter' \in received_marker[Initiator]) =>
             /\ local_state' = local_state
             /\ received_marker' = received_marker
             /\ in_channel' = in_channel]_vars

\* the step is user u handling the first marker it sees for an id
FirstMarker(u) ==
    /\ upc[u] = "msgs"
    /\ in_channel[u] # <<>>
    /\ Head(in_channel[u]).snapshot_id \notin received_marker[u]
    /\ in_channel'[u] = Tail(in_channel[u])

\* C12: receive marker: a process that handles the first marker it sees
\* for snapshot id s, sent by q, records its local state, marks s received
\* and forwards a marker for s to every other process except q: no marker
\* of this process for s is put into q's mailbox
C12_ForwardExceptSender ==
    [][\A u \in Users :
         /\ FirstMarker(u) =>
               LET sid == Head(in_channel[u]).snapshot_id
               IN /\ sid \in DOMAIN local_state'[u]
                  /\ local_state'[u][sid] = LocalState(held_locks[u], waiting_for[u])
                  /\ sid \in received_marker'[u]
         /\ (upc[u] = "fwd" /\ fwd'[u] # fwd[u]) =>
               \A v \in Users :
                   Len(in_channel'[v]) > Len(in_channel[v]) =>
                       /\ v \notin {u, fwd[u][3]}
                       /\ in_channel'[v] = Append(in_channel[v], Marker(u, fwd[u][1]))]_vars

\* the graph built from the global state under analysis
BuiltGraph ==
    IF entry = "main" THEN find_wait_for_graph(snapshot_data) ELSE wait_for_graph

HasEdge(u, v) == u \in DOMAIN BuiltGraph /\ v \in Range(BuiltGraph[u])

GraphNodes ==
    DOMAIN BuiltGraph \cup UNION {Range(BuiltGraph[u]) : u \in DOMAIN BuiltGraph}

HoldersOf(t) == {p \in GsProcs : GsHolds(p, t)}

Largest(S) == CHOOSE x \in S : \A y \in S : y <= x
Smallest(S) == CHOOSE x \in S : \A y \in S : x <= y

\* the one holder the construction takes for a table found in several
\* held sets: build_wait_for_graph keeps the last it meets,
\* __build_wait_for_graph stops at the first
TakenHolder(t) ==
    IF entry = "main" THEN Smallest(HoldersOf(t)) ELSE Largest(HoldersOf(t))

\* C13 as stated: the built graph has an edge u -> v exactly when u is in
\* the global state with a non-null waiting resource r, some process v of
\* the same global state has r in its held set, and v # u
C13_EdgeForEveryHolder ==
    (DetectorVerdict \/ SnapshotVerdict) =>
        \A u, v \in GraphNodes \cup GsProcs :
            HasEdge(u, v) <=> (u \in GsProcs /\ v \in GsProcs /\ WaitsFor(u, v))

\* C13: wait-for graph construction: every edge u -> v of the built graph
\* joins two processes of the global state, v # u holding the resource u
\* waits for; a process has at most one edge. The construction takes one
\* holder per resource (the last in global-state order in
\* build_wait_for_graph, the first in snapshot order in
\* __build_wait_for_graph): u has its edge exactly when it waits for a held
\* resource whose taken holder is not u, and the edge leads to that holder.
\* Where every resource has at most one holder this is an edge u -> v
\* exactly when v # u holds what u waits for.
C13_EdgeToTakenHolder ==
    (DetectorVerdict \/ SnapshotVerdict) =>
        /\ \A u, v \in GraphNodes \cup GsProcs :
              HasEdge(u, v) <=>
                  /\ u \in GsProcs
                  /\ GsWaiting(u) # None
                  /\ HoldersOf(GsWaiting(u)) # {}
                  /\ v = TakenHolder(GsWaiting(u))
                  /\ v # u
        /\ \A u \in DOMAIN BuiltGraph : Len(BuiltGraph[u]) <= 1
        /\ SingleHolder =>
              \A u, v \in GraphNodes \cup GsProcs :
                  HasEdge(u, v) <=> (u \in GsProcs /\ v \in GsProcs /\ WaitsFor(u, v))

\* a graph was built from a state in which a process waits for a table
\* that two others hold: it has the edge to one of them only
C13_Witness ==
    /\ DetectorVerdict \/ SnapshotVerdict
    /\ \E u, v, w \in GsProcs :
          /\ v # w
          /\ WaitsFor(u, v) /\ WaitsFor(u, w)
          /\ HasEdge(u, v) /\ ~HasEdge(u, w)

\* C14: the reported cycle is a closed loop of the graph: a list that
\* __find_cycle returns has the same first and last entry, every
\* consecutive pair of it is an edge of the graph, and it begins at the
\* target of the back edge: every entry lies on the loop and none but the
\* first is repeated
C14_ClosedLoop ==
    (SnapshotVerdict /\ cycle # <<>>) =>
        /\ Len(cycle) >= 3
        /\ cycle[1] = cycle[Len(cycle)]
        /\ \A i \in 1..(Len(cycle) - 1) : HasEdge(cycle[i], cycle[i + 1])
        /\ \A i, j \in 1..(Len(cycle) - 1) : cycle[i] = cycle[j] => i = j

\* a cycle was reported from a search that began at a process outside the
\* loop: the root waits for the first entry and is not in the list
C14_Witness ==
    /\ SnapshotVerdict
    /\ cycle # <<>>
    /\ \E p \in GsProcs :
          /\ p \notin Range(cycle)
          /\ HasEdge(p, cycle[1])
          /\ \A q \in GsProcs : p <= q

\* C15: determinism of analysis: in every round of the detector the graph
\* and the verdict are a function of that round's global-state map alone
\* (the edges are those of its wait-for relation, the verdict says whether
\* the relation has a ring), so that the same map gives the same graph and
\* verdict in a first and in a later call
C15_Deterministic ==
    DetectorVerdict =>
        /\ \A u, v \in Users :
              HasEdge(u, v) <=> (u \in GsProcs /\ v \in GsProcs /\ WaitsFor(u, v))
        /\ GraphNodes \subseteq GsProcs
        /\ deadlock <=> \E p \in GsProcs : OnCycle(p)

\* the detector's second call has found a ring
C15_Witness ==
    /\ DetectorVerdict
    /\ snapshot_id_counter = 2
    /\ deadlock
    /\ \E p \in GsProcs : OnCycle(p)

\* C16: a process that was not granted a table's lock is never its owner:
\* lock_owner / locked_by is set to a process only by that process's step
\* that follows the grant of that table's lock to it with the shutdown
\* signal not set; a blocked, timed-out or abandoned acquire writes no
\* owner, and an owner always holds the lock
C16_OwnerWasGranted ==
    [][/\ \A t \in Tables, c \in Clients :
             /\ (lock_owner'[t] = c /\ lock_owner[t] # c) =>
                   /\ cpc[c] = "acquired"
                   /\ tables_to_lock[c][tx_i[c]] = t
                   /\ write_lock[t]
                   /\ ~shutdown_event
             /\ lock_owner[t] = c => (write_lock[t] /\ t \in locked_tables[c])
       /\ \A c \in Clients :
             (cpc'[c] = "acquired" /\ cpc[c] # "acquired") =>
                 /\ cpc[c] = "acquire"
                 /\ ~write_lock[tables_to_lock[c][tx_i[c]]]
                 /\ write_lock'[tables_to_lock[c][tx_i[c]]]
       /\ \A t \in Tables, u \in Users :
             /\ (locked_by'[t] = u /\ locked_by[t] # u) =>
                   /\ upc[u] = "append"
                   /\ waiting_for[u] = t
                   /\ lock[t]
             /\ locked_by[t] = u => (lock[t] /\ t \in Range(held_locks[u]))
       /\ \A u \in Users :
             /\ (upc'[u] = "append" /\ upc[u] # "append") =>
                   (upc[u] = "granted" /\ running[u])
             /\ (upc'[u] = "granted" /\ upc[u] # "granted") =>
                   /\ upc[u] = "try"
                   /\ ~lock[waiting_for[u]]
                   /\ lock'[waiting_for[u]]]_vars

\* a client that holds nothing is blocked in its acquire of a table that
\* another client owns
C16_Witness ==
    \E c1, c2 \in Clients :
        /\ c1 # c2
        /\ cpc[c2] = "acquire"
        /\ locked_tables[c2] = {}
        /\ lock_owner[tables_to_lock[c2][tx_i[c2]]] = c1

\* C17: waiting invariant: in every reachable state waiting_for is non-null
\* exactly when a lock request of the process is outstanding and
\* unsatisfied (a client is inside acquire_lock), and the resource it
\* names is not in the process's own held set
C17_WaitingInvariant ==
    /\ \A u \in Users :
          waiting_for[u] # None => waiting_for[u] \notin Range(held_locks[u])
    /\ \A c \in Clients :
          /\ waiting_for_table[c] # None <=> cpc[c] \in {"acquire", "acquired"}
          /\ waiting_for_table[c] \notin locked_tables[c]

\* C18: persistent goal: while a user with a write goal t keeps running,
\* the action of each of its turns is to try t again; waiting_for leaves t
\* only for none and only when the user holds t's lock, never for another
\* table and never because of a timeout
C18_PersistentGoal ==
    [][\A u \in Users :
         /\ (upc[u] = "msgs" /\ in_channel[u] = <<>> /\ running[u]
               /\ waiting_for[u] # None /\ upc'[u] # upc[u]) =>
               /\ upc'[u] = "try"
               /\ waiting_for'[u] = waiting_for[u]
               /\ held_locks'[u] = held_locks[u]
         /\ (waiting_for[u] # None /\ waiting_for'[u] # waiting_for[u]) =>
               /\ waiting_for'[u] = None
               /\ running[u] =>
                     /\ waiting_for[u] \in Range(held_locks[u])
                     /\ lock[waiting_for[u]]
         /\ (upc[u] = "try" /\ upc'[u] = "loop"
               /\ waiting_for[u] \notin Range(held_locks[u])) =>
               waiting_for'[u] = waiting_for[u]]_vars

\* a running user begins a further turn with its goal outstanding: the
\* table is not its own
C18_Witness ==
    \E u \in Users :
        /\ upc[u] = "msgs"
        /\ in_channel[u] = <<>>
        /\ running[u]
        /\ waiting_for[u] # None
        /\ waiting_for[u] \notin Range(held_locks[u])

\* two users each wait for a table in the other's held list
Ring ==
    \E u, v \in Users :
        /\ u # v
        /\ waiting_for[u] \in Range(held_locks[v])
        /\ waiting_for[v] \in Range(held_locks[u])

\* C19: holding leads to release: a user that has acquired a table for a
\* write later releases it, unless a deadlock or the shutdown comes
C19_HoldingLeadsToRelease ==
    \A u \in Users : \A t \in Tables :
        (t \in Range(held_locks[u])) ~>
            (t \notin Range(held_locks[u]) \/ ~running[u] \/ Ring)

\* C20: no unbounded blocking: once the shutdown event is set, every client
\* thread eventually leaves its run loop, a client inside acquire_lock on
\* a table that another client holds included
C20_ShutdownObserved ==
    shutdown_event ~> (\A c \in Clients : cpc[c] = "done")

\* the model starts no further round: the bound on the counter is reached
\* and the detector sleeps
RoundsExhausted == snapshot_id_counter = MaxSnapshots /\ dpc = "sleep"

\* C21: a real deadlock is eventually detected: once the users form a
\* ring, with every user thread and the detector scheduled fairly, some
\* round of the detector finds the cycle and stops the simulation
C21_DeadlockDetected ==
    Ring ~> (dpc \in {"stop", "done"} \/ RoundsExhausted)

\* C22: marker propagation reaches everyone: after initiate_snapshot(s) was
\* called, every user that keeps taking turns eventually has a local-state
\* record for s, and a record for s is made once: it is never made again
\* or changed
C22_MarkersReachEveryone ==
    /\ \A u \in Users : \A sid \in 1..MaxSnapshots :
          (snapshot_id_counter >= sid) ~>
              (sid \in DOMAIN local_state[u] \/ ~running[u])
    /\ [][\A u \in Users : \A sid \in DOMAIN local_state[u] :
             /\ sid \in DOMAIN local_state'[u]
             /\ local_state'[u][sid] = local_state[u][sid]]_vars

\* user u is inside try_acquire_lock
InAcquire(u) == upc[u] \in {"try", "granted", "append"}

\* C23: single-writer process state: a user's held list, waiting_for and
\* local-state records are written by steps of its own thread only, the
\* records at the start of its turn when it takes a marker, and while the
\* detector thread reads a user's state for a record that user is not
\* inside an acquire
C23_SingleWriter ==
    [][\A u \in Users :
         /\ local_state'[u] # local_state[u] =>
               (upc[u] = "msgs" /\ in_channel'[u] = Tail(in_channel[u]))
         /\ (held_locks'[u] # held_locks[u] \/ waiting_for'[u] # waiting_for[u]) =>
               upc'[u] # upc[u]
         /\ (u = Initiator /\ dpc \in {"record", "record_id"}) => ~InAcquire(u)]_vars

\* C24: stragglers are absent, not awaited: the step of
\* collect_global_state that reads a user puts it into the map exactly
\* when it has a record for the round's id at that moment, with that
\* record as value, leaves the other entries alone and goes on to the next
\* user whether or not there was a record
C24_StragglersAbsent ==
    [][(dpc = "collect" /\ dk' # dk) =>
           /\ dk \in DOMAIN global_state' <=>
                  snapshot_id_counter \in DOMAIN local_state[dk]
           /\ dk \in DOMAIN global_state' =>
                  global_state'[dk] = local_state[dk][snapshot_id_counter]
           /\ \A v \in Users \ {dk} :
                  /\ v \in DOMAIN global_state' <=> v \in DOMAIN global_state
                  /\ v \in DOMAIN global_state => global_state'[v] = global_state[v]
           /\ IF dk < NumUsers THEN dk' = dk + 1 /\ dpc' = "collect"
              ELSE dpc' = "analyze"]_vars

\* a collection has ended without user 2, which has no record for the id
\* and holds a table
C24_Witness ==
    /\ dpc = "analyze"
    /\ Initiator \in DOMAIN global_state
    /\ 2 \notin DOMAIN global_state
    /\ snapshot_id_counter \notin DOMAIN local_state[2]
    /\ held_locks[2] # <<>>

\* the ids that appear in a user's records, flags and mailbox
IdsOf(u) ==
    DOMAIN local_state[u] \cup received_marker[u]
        \cup {in_channel[u][i].snapshot_id : i \in 1..Len(in_channel[u])}

\* C25: snapshot ids are strictly increasing and unique: the counter
\* changes only in the detector's step that starts a round, every round
\* start raises it by exactly one, and every id found in a record, a flag or
\* a marker is the id of a round already started, so a record for id s
\* belongs to the one round that initiated s
C25_SnapshotIdsIncrease ==
    [][/\ snapshot_id_counter' # snapshot_id_counter =>
             (dpc = "sleep" /\ dpc' \in {"record", "collect"})
       /\ (dpc = "sleep" /\ dpc' \in {"record", "collect"}) =>
             snapshot_id_counter' = snapshot_id_counter + 1
       /\ \A u \in Users : IdsOf(u)' \subseteq 1..snapshot_id_counter']_vars

\* the second round has started and both users hold a record of the first
C25_Witness ==
    /\ entry = "new_implementation"
    /\ snapshot_id_counter = 2
    /\ dpc \in {"record", "record_id", "send", "collect"}
    /\ \A u \in Users : 1 \in DOMAIN local_state[u]

\* C26: ordered transaction: a write transaction requests its tables one
\* at a time in the sampled order, the next one only after all the earlier
\* ones were granted; at its end, normal or by shutdown, it releases the
\* tables it acquired, the last acquired first, and leaves holding none
C26_OrderedTransaction ==
    [][\A c \in Clients :
         /\ (cpc[c] = "tx_loop" /\ cpc'[c] = "acquire") =>
               /\ waiting_for_table'[c] = tables_to_lock[c][Len(acquired_locks[c]) + 1]
               /\ acquired_locks[c] =
                     SubSeq(tables_to_lock[c], 1, Len(acquired_locks[c]))
               /\ locked_tables[c] =
                     {acquired_locks[c][i] : i \in 1..Len(acquired_locks[c])}
         /\ (cpc[c] = "tx_finally" /\ locked_tables'[c] # locked_tables[c]) =>
               /\ acquired_locks[c] # <<>>
               /\ acquired_locks'[c] = Front(acquired_locks[c])
               /\ locked_tables'[c] =
                     locked_tables[c] \ {acquired_locks[c][Len(acquired_locks[c])]}
         /\ (cpc[c] = "tx_finally" /\ cpc'[c] = "run") =>
               /\ locked_tables[c] = {}
               /\ \A t \in Tables : lock_owner[t] = c => ~write_lock[t]]_vars

\* the detector is inside a round
InRound == dpc \in {"record", "record_id", "send", "collect", "analyze", "clear"}

\* C27: the detector cannot deadlock itself: no step of a round takes or
\* frees a table lock, and every round that has started comes to its end
\* (the detector sleeps again or stops the simulation), also when every
\* user waits for a table another one holds
C27_DetectorCompletes ==
    /\ [][(InRound /\ (dpc' # dpc \/ dk' # dk)) =>
              (lock' = lock /\ locked_by' = locked_by)]_vars
    /\ (entry = "new_implementation" /\ InRound) ~> (dpc \in {"sleep", "stop", "done"})

\* The wait-for relation of the live connections: c waits for d when d is
\* another connection whose locked_tables hold the table c is waiting for
LiveWaits(c, d) ==
    /\ c # d
    /\ waiting_for_table[c] # None
    /\ waiting_for_table[c] \in locked_tables[d]

LiveSuccessors(S) == {d \in Clients : \E c \in S : LiveWaits(c, d)}

RECURSIVE LiveReachIn(_, _)
LiveReachIn(S, n) ==
    IF n = 0 THEN {}
    ELSE LiveSuccessors(S) \cup LiveReachIn(LiveSuccessors(S), n - 1)

LiveCycle == \E c \in Clients : c \in LiveReachIn({c}, NumClients)

\* C28: soundness of the shutdown decision: whenever analyze has found a
\* cycle in the snapshot take_snapshot assembled, and so sets the
\* shutdown event, the live connections at that moment contain a wait-for
\* cycle, each waiting for a table the next one holds
C28_ShutdownSound ==
    (SnapshotVerdict /\ cycle # <<>>) => LiveCycle

\* the tables found in the held list of some process of the collected map
RecordedHolders(t) ==
    {p \in DOMAIN global_state : t \in Range(global_state[p].held_locks)}

\* C29: consistent cut of ownership: in every global state collected for
\* one snapshot id no table appears in the held lists of two different
\* processes, so build_wait_for_graph finds at most one holder per table
C29_OwnershipCut ==
    (entry = "new_implementation" /\ dpc \in {"collect", "analyze", "clear", "stop"}) =>
        \A t \in Tables : Cardinality(RecordedHolders(t)) <= 1

\* a collection has ended with the records of both users, each holding a
\* table, and the first user has moved on since its record was taken
C29_Witness ==
    /\ entry = "new_implementation"
    /\ dpc = "analyze"
    /\ DOMAIN global_state = Users
    /\ \A u \in Users : global_state[u].held_locks # <<>>
    /\ local_state[1][snapshot_id_counter].waiting_for # waiting_for[1]
====
